---------------------------- MODULE Spec2Model ----------------------------
(***************************************************************************)
(* A model of the three numerical utilities of Data-Analysis-Modules:      *)
(*   weighted_average_with_error   (src/error_weighted_average.py)         *)
(*   transform_and_select_columns_dynamic (src/aggregate_dataframe.py)     *)
(*   compute_max                   (src/compute_max.py)                    *)
(*                                                                         *)
(* Every function is a call frame: args (the inputs), locals (the names    *)
(* the body has bound so far), pc (the next source line to run) and ret    *)
(* (pending, a returned value, or a raised exception).                     *)
(*                                                                         *)
(* Numbers.  The code computes in IEEE doubles.  The model computes the    *)
(* same expressions in exact rational arithmetic and keeps the IEEE        *)
(* special values that the code can produce without raising: a float is    *)
(* a record [k, v] with k = "fin" (v = <<n, d>>, the rational n/d in       *)
(* lowest terms, d > 0), k = "inf" (v = <<1,1>> or <<-1,1>>), k = "nan",   *)
(* or k = "sqrt" (the square root of the rational v, kept symbolic when    *)
(* it is irrational).  Rounding error is not modelled.                     *)
(***************************************************************************)
EXTENDS Integers, Sequences, FiniteSets, TLC

VARIABLES pc, args, locals, ret

vars == <<pc, args, locals, ret>>

(***************************************************************************)
(* Bounds of the model.                                                    *)
(***************************************************************************)
\* weighted_average_with_error: rows of the table, values of the columns
MaxRows == 3
MaxProp == 2
MaxErr == 2
\* transform_and_select_columns_dynamic: rows of the table, values of prob
MaxAggRows == 3
MaxProb == 1
\* compute_max: length of x and y, values of y, the largest offset
MaxLen == 4
MaxY == 1
MaxOffset == 2

(***************************************************************************)
(* Exact rationals <<n, d>>.                                               *)
(***************************************************************************)
Abs(a) == IF a < 0 THEN -a ELSE a

RECURSIVE GCD(_, _)
GCD(a, b) == IF b = 0 THEN a ELSE GCD(b, a % b)

QNorm(n, d) ==
    LET g == GCD(Abs(n), Abs(d))
        s == IF d < 0 THEN -1 ELSE 1
    IN  <<(s * n) \div g, (s * d) \div g>>

QInt(a) == <<a, 1>>
\* over the least common denominator, which keeps the integers small
QAdd(p, q) ==
    LET g == GCD(p[2], q[2])
    IN  QNorm(p[1] * (q[2] \div g) + q[1] * (p[2] \div g), (p[2] \div g) * q[2])
QNeg(p) == <<-p[1], p[2]>>
QSub(p, q) == QAdd(p, QNeg(q))
\* cross-cancelled before multiplying
QMul(p, q) ==
    LET g1 == GCD(Abs(p[1]), q[2])
        g2 == GCD(Abs(q[1]), p[2])
    IN  IF p[1] = 0 \/ q[1] = 0 THEN <<0, 1>>
        ELSE <<(p[1] \div g1) * (q[1] \div g2), (p[2] \div g2) * (q[2] \div g1)>>
\* q /= 0
QDiv(p, q) == QMul(p, QNorm(q[2], q[1]))
QSign(p) == IF p[1] > 0 THEN 1 ELSE IF p[1] < 0 THEN -1 ELSE 0
RECURSIVE CmpFrac(_, _, _, _)
\* the sign of a/b - c/e for a, c >= 0 and b, e > 0, by comparing the integer
\* parts and then the inverted remainders: no product is formed
CmpFrac(a, b, c, e) ==
    IF a \div b # c \div e THEN (IF a \div b < c \div e THEN -1 ELSE 1)
    ELSE IF a % b = 0 /\ c % e = 0 THEN 0
    ELSE IF a % b = 0 THEN -1
    ELSE IF c % e = 0 THEN 1
    ELSE CmpFrac(e, c % e, b, a % b)

\* the sign of p - q
QCmp(p, q) ==
    IF QSign(p) # QSign(q) THEN (IF QSign(p) < QSign(q) THEN -1 ELSE 1)
    ELSE IF QSign(p) = 0 THEN 0
    ELSE IF QSign(p) > 0 THEN CmpFrac(p[1], p[2], q[1], q[2])
    ELSE CmpFrac(-q[1], q[2], -p[1], p[2])
QLeq(p, q) == QCmp(p, q) <= 0
QLt(p, q) == QCmp(p, q) < 0
QAbs(p) == <<Abs(p[1]), p[2]>>

(***************************************************************************)
(* IEEE floats: finite (exact), +-inf, nan, and symbolic square roots.     *)
(***************************************************************************)
Fin(q) == [k |-> "fin", v |-> q]
FInt(a) == Fin(QInt(a))
Inf(s) == [k |-> "inf", v |-> <<s, 1>>]
NaN == [k |-> "nan", v |-> <<0, 1>>]
FSign(a) == QSign(a.v)

\* a + b: inf + -inf is nan
FAdd(a, b) ==
    IF a.k = "nan" \/ b.k = "nan" THEN NaN
    ELSE IF a.k = "inf" /\ b.k = "inf"
         THEN (IF a.v = b.v THEN a ELSE NaN)
    ELSE IF a.k = "inf" THEN a
    ELSE IF b.k = "inf" THEN b
    ELSE Fin(QAdd(a.v, b.v))

\* a * b: 0 * inf is nan
FMul(a, b) ==
    IF a.k = "nan" \/ b.k = "nan" THEN NaN
    ELSE IF a.k = "inf" \/ b.k = "inf"
         THEN (IF FSign(a) * FSign(b) = 0 THEN NaN ELSE Inf(FSign(a) * FSign(b)))
    ELSE Fin(QMul(a.v, b.v))

\* numpy's true division: x / 0 is +-inf, 0 / 0 and inf / inf are nan, and a
\* RuntimeWarning is all that is emitted: nothing is raised.
FDiv(a, b) ==
    IF a.k = "nan" \/ b.k = "nan" THEN NaN
    ELSE IF a.k = "inf" /\ b.k = "inf" THEN NaN
    ELSE IF a.k = "inf" THEN Inf(FSign(a) * (IF FSign(b) < 0 THEN -1 ELSE 1))
    ELSE IF b.k = "inf" THEN FInt(0)
    ELSE IF FSign(b) = 0
         THEN (IF FSign(a) = 0 THEN NaN ELSE Inf(FSign(a)))
    ELSE Fin(QDiv(a.v, b.v))

RECURSIVE FloorSqrt(_, _, _)
\* the largest r in lo..hi with r * r <= n, by bisection (lo * lo <= n)
FloorSqrt(n, lo, hi) ==
    IF lo >= hi THEN lo
    ELSE LET mid == (lo + hi + 1) \div 2
         IN  IF mid * mid <= n THEN FloorSqrt(n, mid, hi) ELSE FloorSqrt(n, lo, mid - 1)

\* 46340 is the largest integer whose square is a 32-bit integer
IntSqrt(n) == FloorSqrt(n, 0, IF n < 46340 THEN n ELSE 46340)
IsSquare(n) == IntSqrt(n) * IntSqrt(n) = n

\* np.sqrt of a non-negative float: exact when the rational is a square
FSqrt(a) ==
    IF a.k = "nan" THEN NaN
    ELSE IF a.k = "inf" THEN (IF FSign(a) > 0 THEN a ELSE NaN)
    ELSE IF FSign(a) < 0 THEN NaN
    ELSE IF IsSquare(a.v[1]) /\ IsSquare(a.v[2])
         THEN Fin(<<IntSqrt(a.v[1]), IntSqrt(a.v[2])>>)
    ELSE [k |-> "sqrt", v |-> a.v]

\* the square of a float the model holds (undoes FSqrt)
FSquare(a) == IF a.k = "sqrt" THEN Fin(a.v) ELSE FMul(a, a)

RECURSIVE FSum(_)
\* np.sum over a column: left to right from 0.0
FSum(s) == IF s = <<>> THEN FInt(0) ELSE FAdd(FSum(SubSeq(s, 1, Len(s) - 1)), s[Len(s)])

Pending == [k |-> "pending"]
Return(value) == [k |-> "return", value |-> value]
Raise(exc) == [k |-> "raise", exc |-> exc]

SeqsUpTo(S, n) == UNION {[1..m -> S] : m \in 0..n}

(***************************************************************************)
(* weighted_average_with_error(df, property_col, error_col)                *)
(*                                                                         *)
(* args.df is the sequence of rows [property, error] (the two named        *)
(* columns, row-aligned); args.dtype is the dtype of the two columns: a    *)
(* numeric column ("float64"), or "object", which is what pandas gives     *)
(* the columns of a table built with no rows at all.                       *)
(***************************************************************************)
WavgRows == [property : 0..MaxProp, error : 0..MaxErr]

WavgArgs ==
    {[df |-> d, dtype |-> "float64"] : d \in SeqsUpTo(WavgRows, MaxRows)}
        \cup {[df |-> <<>>, dtype |-> "object"]}

InitWavg ==
    /\ args \in WavgArgs
    /\ pc = "weights"
    /\ locals = [weights |-> <<>>]
    /\ ret = Pending

\* the weight with the square forgotten: 1 / e
WeightOfNoSquare(e) == FDiv(FInt(1), FInt(e))

\* 1 / (e ** 2), elementwise on the column
WeightOf(e) == FDiv(FInt(1), FInt(e * e))

\* line 16: weights = 1 / (df[error_col] ** 2)
Weights ==
    /\ pc = "weights"
    /\ locals' = [weights |-> [i \in 1..Len(args.df) |-> WeightOf(args.df[i].error)]]
    /\ pc' = "weighted_avg"
    /\ UNCHANGED <<args, ret>>

\* line 17: weighted_avg = np.sum(df[property_col] * weights) / np.sum(weights)
\* The sums of numeric columns are numpy floats, whose division never raises.
\* The sum of an empty object column is the Python int 0, and 0 / 0 on Python
\* ints raises ZeroDivisionError.
WeightedAvg ==
    /\ pc = "weighted_avg"
    /\ LET products == [i \in 1..Len(args.df) |->
                           FMul(FInt(args.df[i].property), locals.weights[i])]
       IN  IF args.dtype = "object"
           THEN /\ ret' = Raise("ZeroDivisionError")
                /\ pc' = "done"
                /\ UNCHANGED locals
           ELSE /\ locals' = [weights |-> locals.weights,
                              weighted_avg |-> FDiv(FSum(products), FSum(locals.weights))]
                /\ pc' = "weighted_avg_error"
                /\ UNCHANGED ret
    /\ UNCHANGED args

\* line 18: weighted_avg_error = np.sqrt(1 / np.sum(weights))
WeightedAvgError ==
    /\ pc = "weighted_avg_error"
    /\ locals' = [weights |-> locals.weights,
                  weighted_avg |-> locals.weighted_avg,
                  weighted_avg_error |-> FSqrt(FDiv(FInt(1), FSum(locals.weights)))]
    /\ pc' = "return"
    /\ UNCHANGED <<args, ret>>

\* line 20: return weighted_avg, weighted_avg_error
WavgReturn ==
    /\ pc = "return"
    /\ ret' = Return(<<locals.weighted_avg, locals.weighted_avg_error>>)
    /\ pc' = "done"
    /\ UNCHANGED <<args, locals>>

NextWavg == Weights \/ WeightedAvg \/ WeightedAvgError \/ WavgReturn

SpecWavg == InitWavg /\ [][NextWavg]_vars

RECURSIVE SumProperty(_)
SumProperty(df) ==
    IF df = <<>> THEN 0 ELSE df[1].property + SumProperty(Tail(df))

AllErrorsEqual(df, e) == Len(df) >= 1 /\ \A i \in 1..Len(df) : df[i].error = e

\* C7: when every error equals the same positive e (n >= 1 rows), the call
\* returns the unweighted mean of the value column as weighted_average, and
\* weighted_average_error^2 * n = e^2.
C7_EqualErrorsGiveMean ==
    \A e \in 1..MaxErr :
        (pc = "done" /\ AllErrorsEqual(args.df, e)) =>
            /\ ret.k = "return"
            /\ ret.value[1] = Fin(QNorm(SumProperty(args.df), Len(args.df)))
            /\ FMul(FSquare(ret.value[2]), FInt(Len(args.df))) = FInt(e * e)

\* two rows of equal error 2 and distinct values have been averaged; the
\* error e / sqrt(2) is irrational
C7_Witness ==
    /\ pc = "done"
    /\ Len(args.df) = 2
    /\ AllErrorsEqual(args.df, 2)
    /\ args.df[1].property # args.df[2].property
    /\ ret.k = "return"
    /\ ret.value[2] = [k |-> "sqrt", v |-> <<2, 1>>]

\* C10: a call on a table with a zero error, or with no rows, raises and
\* returns no pair.
C10_ZeroErrorOrEmptyRaises ==
    (pc = "done" /\ (Len(args.df) = 0 \/ \E i \in 1..Len(args.df) : args.df[i].error = 0))
        => ret.k = "raise"

(***************************************************************************)
(* transform_and_select_columns_dynamic(df)                                *)
(*                                                                         *)
(* A DataFrame is [columns, rows]: the column labels in order, and the     *)
(* rows in order, each a record from the labels to the cells.  A column    *)
(* label of the grouped frame is the pair <<column, statistic>> until      *)
(* the labels are flattened to strings.                                    *)
(***************************************************************************)
Range(s) == {s[i] : i \in 1..Len(s)}


RECURSIVE Concat(_)
\* the sequences of a sequence, joined (list.extend in a loop)
Concat(ss) == IF ss = <<>> THEN <<>> ELSE ss[1] \o Concat(Tail(ss))

RECURSIVE SortedSeq(_)
\* the integers of a set in ascending order
SortedSeq(S) ==
    IF S = {} THEN <<>>
    ELSE LET m == CHOOSE a \in S : \A b \in S : a <= b
         IN  <<m>> \o SortedSeq(S \ {m})

\* line 48
suffixes == <<"+", "-">>
\* line 49
base_columns == <<"Smax", "Smax2", "Smax3", "Smax4", "M2Total", "M2Prime", "nBonds">>

\* the nested loops of lines 53-55 and 82-84: every f"{base}{suffix}", base by
\* base and, within a base, suffix by suffix
BaseSuffixLoop ==
    [n \in 1..(Len(base_columns) * Len(suffixes)) |->
        base_columns[((n - 1) \div Len(suffixes)) + 1]
            \o suffixes[((n - 1) % Len(suffixes)) + 1]]

\* The column lists of the input tables: every sub-list of a list that holds
\* idx, prob, three signed columns and a column that is no base+suffix (it
\* looks like an output column), in an order that differs from the output's in
\* every respect (idx and prob not first, nBonds before Smax, - before +); and
\* the column list of the docstring's example.
ScrambledColumns == <<"avg_Smax+", "nBonds-", "prob", "Smax-", "idx", "Smax+">>

DocstringColumns == <<"idx", "prob", "Smax+", "nBonds-">>

AggColumnLists ==
    {SelectSeq(ScrambledColumns, LAMBDA c : c \in S) : S \in SUBSET Range(ScrambledColumns)}
        \cup {DocstringColumns}

ColumnNumber(c) == CHOOSE n \in 1..Len(ScrambledColumns) : ScrambledColumns[n] = c

\* The cells of one row: idx and prob are free; every other column holds a
\* multiple of prob that differs from column to column (as in the docstring's
\* example, where Smax+ = 100 * prob and nBonds- = 20 * prob).
RowOf(cols, idx, prob) ==
    [c \in cols |-> IF c = "idx" THEN idx
                    ELSE IF c = "prob" THEN prob
                    ELSE prob * (ColumnNumber(c) + 1)]

AggIdxValues == {1, 2}

AggTables ==
    {[columns |-> cs,
      rows |-> [i \in 1..Len(keys) |-> RowOf(Range(cs), keys[i].idx, keys[i].prob)]] :
        cs \in AggColumnLists,
        keys \in SeqsUpTo([idx : AggIdxValues, prob : 0..MaxProb], MaxAggRows)}

InitAgg ==
    /\ args \in {[df |-> t] : t \in AggTables}
    /\ pc = "agg_cols"
    /\ locals = [agg_cols |-> <<>>]
    /\ ret = Pending

\* lines 51-57: agg_cols = ['prob'] and then every base+suffix that is a column
\* of df, in loop order
AggCols ==
    /\ pc = "agg_cols"
    /\ locals' = [agg_cols |->
                    <<"prob">> \o SelectSeq(BaseSuffixLoop,
                                            LAMBDA col : col \in Range(args.df.columns))]
    /\ pc' = "groupby"
    /\ UNCHANGED <<args, ret>>

RECURSIVE QSum(_)
QSum(qs) == IF qs = <<>> THEN QInt(0) ELSE QAdd(qs[1], QSum(Tail(qs)))

\* pandas 'mean' of the cells xs (integers) of one group: sum / count
Mean(xs) == FDiv(Fin(QSum([i \in 1..Len(xs) |-> QInt(xs[i])])), FInt(Len(xs)))

\* the standard deviation with the N denominator (ddof = 0)
StdPopulation(xs) ==
    LET m == Mean(xs).v
        ssd == QSum([i \in 1..Len(xs) |-> QMul(QSub(QInt(xs[i]), m), QSub(QInt(xs[i]), m))])
    IN  FSqrt(FDiv(Fin(ssd), FInt(Len(xs))))

\* pandas 'std' of the cells xs of one group: ddof = 1, the square root of
\* sum((x - mean)^2) / (N - 1); for N = 1 that is 0 / 0, nan
Std(xs) ==
    LET m == Mean(xs).v
        ssd == QSum([i \in 1..Len(xs) |-> QMul(QSub(QInt(xs[i]), m), QSub(QInt(xs[i]), m))])
    IN  FSqrt(FDiv(Fin(ssd), FInt(Len(xs) - 1)))

\* the rows of every group, whatever the key
GroupRowsAll(df, key) == df.rows

\* the rows of df in the group of key, in table order
GroupRows(df, key) == SelectSeq(df.rows, LAMBDA r : r["idx"] = key)

Column(rows, c) == [i \in 1..Len(rows) |-> rows[i][c]]

\* df.groupby('idx')[agg_cols].agg(['mean', 'std']): one row per key, keys
\* sorted (groupby's sort=True), columns (c, 'mean'), (c, 'std') for c in agg_cols
GroupByAgg(df, agg_cols) ==
    LET keys == SortedSeq({df.rows[i]["idx"] : i \in 1..Len(df.rows)})
        labels == Concat([n \in 1..Len(agg_cols) |->
                            << <<agg_cols[n], "mean">>, <<agg_cols[n], "std">> >>])
    IN  [index |-> keys,
         columns |-> labels,
         rows |-> [g \in 1..Len(keys) |->
                    [l \in Range(labels) |->
                        IF l[2] = "mean"
                        THEN Mean(Column(GroupRows(df, keys[g]), l[1]))
                        ELSE Std(Column(GroupRows(df, keys[g]), l[1]))]]]

\* line 60: agg_results = df.groupby('idx')[agg_cols].agg(['mean', 'std'])
\* groupby raises KeyError when df has no column idx, and the selection raises
\* KeyError when df has no column prob
GroupBy ==
    /\ pc = "groupby"
    /\ IF {"idx", "prob"} \subseteq Range(args.df.columns)
       THEN /\ locals' = [agg_cols |-> locals.agg_cols,
                          agg_results |-> GroupByAgg(args.df, locals.agg_cols)]
            /\ pc' = "flatten"
            /\ UNCHANGED ret
       ELSE /\ ret' = Raise("KeyError")
            /\ pc' = "done"
            /\ UNCHANGED locals
    /\ UNCHANGED args

\* lines 64-70: the new label of the column (col, stat)
FlatLabel(l) ==
    IF l[2] = "mean" THEN "avg_" \o l[1]
    ELSE IF l[2] = "std" THEN "std_" \o l[1]
    ELSE l[1]

\* a frame with its columns relabelled by f, a function on its labels
Relabel(frame, f) ==
    [index |-> frame.index,
     columns |-> [n \in 1..Len(frame.columns) |-> f[frame.columns[n]]],
     rows |-> [g \in 1..Len(frame.rows) |->
                [c \in {f[l] : l \in Range(frame.columns)} |->
                    frame.rows[g][CHOOSE l \in Range(frame.columns) : f[l] = c]]]]

\* lines 62-71: flatten the column labels, 'mean' renamed to 'avg_'
Flatten ==
    /\ pc = "flatten"
    /\ locals' = [locals EXCEPT !.agg_results = Relabel(@, [l \in Range(@.columns) |-> FlatLabel(l)])]
    /\ pc' = "rename"
    /\ UNCHANGED <<args, ret>>

RenameAvgProb(c) == IF c = "avg_prob" THEN "prob" ELSE c

\* lines 73-75: rename 'avg_prob' back to 'prob'
Rename ==
    /\ pc = "rename"
    /\ locals' = IF "avg_prob" \in Range(locals.agg_results.columns)
                 THEN [locals EXCEPT !.agg_results = Relabel(@, [c \in Range(@.columns) |-> RenameAvgProb(c)])]
                 ELSE locals
    /\ pc' = "reset_index"
    /\ UNCHANGED <<args, ret>>

\* agg_results.reset_index(): the index becomes the first column, idx
ResetIndexFrame(frame) ==
    [columns |-> <<"idx">> \o frame.columns,
     rows |-> [g \in 1..Len(frame.rows) |->
                [c \in Range(frame.columns) \cup {"idx"} |->
                    IF c = "idx" THEN FInt(frame.index[g]) ELSE frame.rows[g][c]]]]

\* lines 77-78: agg_results.reset_index(inplace=True)
ResetIndex ==
    /\ pc = "reset_index"
    /\ locals' = [locals EXCEPT !.agg_results = ResetIndexFrame(@)]
    /\ pc' = "column_order"
    /\ UNCHANGED <<args, ret>>

\* the output columns in the order the grouped frame has them
ColumnOrderOfFrame(frame) == frame.columns

\* lines 80-86: idx, prob, then avg_ and std_ of every base+suffix whose avg_
\* column is in agg_results, in loop order
ColumnOrderOf(frame) ==
    <<"idx", "prob">> \o
        Concat([n \in 1..Len(BaseSuffixLoop) |->
                  IF ("avg_" \o BaseSuffixLoop[n]) \in Range(frame.columns)
                  THEN <<"avg_" \o BaseSuffixLoop[n], "std_" \o BaseSuffixLoop[n]>>
                  ELSE <<>>])

\* frame[column_order]
SelectColumns(frame, column_order) ==
    [columns |-> column_order,
     rows |-> [g \in 1..Len(frame.rows) |->
                [c \in Range(column_order) |-> frame.rows[g][c]]]]

\* lines 80-88: return agg_results[column_order]
AggReturn ==
    /\ pc = "column_order"
    /\ ret' = Return(SelectColumns(locals.agg_results, ColumnOrderOf(locals.agg_results)))
    /\ pc' = "done"
    /\ UNCHANGED <<args, locals>>

NextAgg == AggCols \/ GroupBy \/ Flatten \/ Rename \/ ResetIndex \/ AggReturn

SpecAgg == InitAgg /\ [][NextAgg]_vars

\* what the claims about the aggregation read
AggInput == args.df
AggOutput == ret.value
AggReturned == pc = "done" /\ ret.k = "return"
InputIdxValues == {AggInput.rows[i]["idx"] : i \in 1..Len(AggInput.rows)}
\* the cells of column c in the input rows whose idx is key, in table order
RECURSIVE CellsOf(_, _, _)
CellsOf(rows, c, key) ==
    IF rows = <<>> THEN <<>>
    ELSE (IF rows[1]["idx"] = key THEN <<rows[1][c]>> ELSE <<>>) \o CellsOf(Tail(rows), c, key)
RECURSIVE SumInts(_)
SumInts(xs) == IF xs = <<>> THEN 0 ELSE xs[1] + SumInts(Tail(xs))
SumSquares(xs) == SumInts([i \in 1..Len(xs) |-> xs[i] * xs[i]])
\* the key of an output row
KeyOf(row) == CHOOSE key \in InputIdxValues : row["idx"] = FInt(key)

\* C4: a call on a table with idx and prob returns one row per distinct idx
\* value (as many rows as distinct values, no value twice, every value an
\* input value), and the prob of each row is the arithmetic mean of prob over
\* the input rows of that idx: prob * count = sum.
C4_OneRowPerIdxWithMeanProb ==
    (pc = "done" /\ {"idx", "prob"} \subseteq Range(AggInput.columns)) =>
        /\ ret.k = "return"
        /\ Len(AggOutput.rows) = Cardinality(InputIdxValues)
        /\ \A g, h \in 1..Len(AggOutput.rows) :
              g # h => AggOutput.rows[g]["idx"] # AggOutput.rows[h]["idx"]
        /\ \A g \in 1..Len(AggOutput.rows) :
              /\ \E key \in InputIdxValues : AggOutput.rows[g]["idx"] = FInt(key)
              /\ LET probs == CellsOf(AggInput.rows, "prob", KeyOf(AggOutput.rows[g]))
                 IN  FMul(AggOutput.rows[g]["prob"], FInt(Len(probs))) = FInt(SumInts(probs))

\* three rows in two groups were aggregated, the group of two with different
\* prob values, and its mean lies between them
C4_Witness ==
    /\ AggReturned
    /\ Len(AggInput.rows) = 3
    /\ Len(AggOutput.rows) = 2
    /\ \E i, j \in 1..3 :
          /\ i # j
          /\ AggInput.rows[i]["idx"] = AggInput.rows[j]["idx"]
          /\ AggInput.rows[i]["prob"] # AggInput.rows[j]["prob"]
    /\ \E g \in 1..2 : AggOutput.rows[g]["prob"] = Fin(<<1, 2>>)

\* every base+suffix name, written out
SignedNames ==
    <<"Smax+", "Smax-", "Smax2+", "Smax2-", "Smax3+", "Smax3-", "Smax4+", "Smax4-",
      "M2Total+", "M2Total-", "M2Prime+", "M2Prime-", "nBonds+", "nBonds-">>

\* C5: the output columns are exactly idx, prob, then avg_c, std_c for every
\* base+suffix c that is a column of the input, bases in the fixed order and +
\* before -, whatever the order of the input's columns; no std of prob, no
\* signed column itself, and no input column that is no base+suffix: a label
\* of the input appears in the output only as idx, prob, or the avg_/std_
\* label of a signed column of the input.
C5_OutputColumns ==
    AggReturned =>
        LET present == SelectSeq(SignedNames, LAMBDA c : c \in Range(AggInput.columns))
            made == {"avg_" \o present[n] : n \in 1..Len(present)}
                        \cup {"std_" \o present[n] : n \in 1..Len(present)}
        IN  /\ AggOutput.columns =
                  <<"idx", "prob">> \o
                      Concat([n \in 1..Len(present) |->
                                <<"avg_" \o present[n], "std_" \o present[n]>>])
            /\ "std_prob" \notin Range(AggOutput.columns)
            /\ \A c \in Range(SignedNames) : c \notin Range(AggOutput.columns)
            /\ \A c \in Range(AggInput.columns) \ ({"idx", "prob"} \cup made) :
                  c \notin Range(AggOutput.columns)
            /\ \A g \in 1..Len(AggOutput.rows) :
                  DOMAIN AggOutput.rows[g] = Range(AggOutput.columns)

\* a table with all six columns, in the scrambled order, was aggregated
C5_Witness ==
    /\ AggReturned
    /\ AggInput.columns = ScrambledColumns
    /\ Len(AggInput.rows) = 2
    /\ AggOutput.columns = <<"idx", "prob", "avg_Smax+", "std_Smax+", "avg_Smax-",
                             "std_Smax-", "avg_nBonds-", "std_nBonds-">>

\* C6: in every output row and for every signed column c of the input: a
\* group of one row has std_c nan (not zero) and avg_c that row's cell; a
\* group of n >= 2 rows has std_c the N-1 sample standard deviation:
\* std_c^2 * n * (n - 1) = n * sum(x^2) - sum(x)^2.
C6_StdOfGroups ==
    AggReturned =>
        \A g \in 1..Len(AggOutput.rows) :
            \A c \in Range(SignedNames) \cap Range(AggInput.columns) :
                LET xs == CellsOf(AggInput.rows, c, KeyOf(AggOutput.rows[g]))
                    n == Len(xs)
                    std == AggOutput.rows[g]["std_" \o c]
                    avg == AggOutput.rows[g]["avg_" \o c]
                IN  /\ n >= 1
                    /\ n = 1 => std = NaN /\ avg = FInt(xs[1])
                    /\ n >= 2 => /\ std.k \in {"fin", "sqrt"}
                                 /\ FMul(FSquare(std), FInt(n * (n - 1)))
                                        = FInt(n * SumSquares(xs) - SumInts(xs) * SumInts(xs))

\* a group of one row and a group of two rows with different cells were
\* aggregated: the first has std nan, the second an irrational std
C6_Witness ==
    /\ AggReturned
    /\ "Smax+" \in Range(AggInput.columns)
    /\ Len(AggOutput.rows) = 2
    /\ AggOutput.rows[1]["std_Smax+"] = NaN
    /\ AggOutput.rows[1]["avg_Smax+"] # FInt(0)
    /\ AggOutput.rows[2]["std_Smax+"].k = "sqrt"

(***************************************************************************)
(* compute_max(x, y, offset, order)                                        *)
(*                                                                         *)
(* Real numbers.  The roots of the derivative of a cubic are quadratic     *)
(* irrationals, so a real is a record [u, v, d]: the number u + v*sqrt(d)  *)
(* with u, v rational and d a natural number; v = 0 and d = 0 for a        *)
(* rational.  All irrationals of one call share the same d.                *)
(***************************************************************************)
Max2(a, b) == IF a >= b THEN a ELSE b
Min2(a, b) == IF a <= b THEN a ELSE b

RECURSIVE Pow(_, _)
Pow(a, k) == IF k = 0 THEN 1 ELSE a * Pow(a, k - 1)

RECURSIVE SquarePart(_, _)
\* the largest k <= r whose square divides d
SquarePart(d, r) == IF r <= 1 THEN 1 ELSE IF d % (r * r) = 0 THEN r ELSE SquarePart(d, r - 1)

\* u + v*sqrt(d) with the square factor of d moved into v: d is 0 or square-free
RCanon(u, v, d) ==
    IF v[1] = 0 \/ d = 0 THEN [u |-> u, v |-> QInt(0), d |-> 0]
    ELSE LET k == SquarePart(d, IntSqrt(d))
         IN  IF k * k = d THEN [u |-> QAdd(u, QMul(v, QInt(k))), v |-> QInt(0), d |-> 0]
             ELSE [u |-> u, v |-> QMul(v, QInt(k)), d |-> d \div (k * k)]

RQ(q) == [u |-> q, v |-> QInt(0), d |-> 0]
RInt(a) == RQ(QInt(a))
RAdd(a, b) == RCanon(QAdd(a.u, b.u), QAdd(a.v, b.v), Max2(a.d, b.d))
RNeg(a) == [u |-> QNeg(a.u), v |-> QNeg(a.v), d |-> a.d]
RSub(a, b) == RAdd(a, RNeg(b))
RMul(a, b) ==
    LET d == Max2(a.d, b.d)
    IN  RCanon(QAdd(QMul(a.u, b.u), QMul(QMul(a.v, b.v), QInt(d))),
               QAdd(QMul(a.u, b.v), QMul(a.v, b.u)), d)

\* the sign of u + v*sqrt(d)
RSign(a) ==
    IF QSign(a.v) = 0 THEN QSign(a.u)
    ELSE IF QSign(a.u) = 0 THEN QSign(a.v)
    ELSE IF QSign(a.u) = QSign(a.v) THEN QSign(a.u)
    ELSE LET \* |u| against |v| * sqrt(d): with r = |u| / |v|, r against d / r
             r == QAbs(QDiv(a.u, a.v))
             c == CmpFrac(r[1], r[2], a.d * r[2], r[1])
         IN  IF c > 0 THEN QSign(a.u)
             ELSE IF c < 0 THEN QSign(a.v)
             ELSE 0

RLeq(a, b) == RSign(RSub(a, b)) <= 0
RLt(a, b) == RSign(RSub(a, b)) < 0
RAbs(a) == IF RSign(a) < 0 THEN RNeg(a) ELSE a

None == [k |-> "none"]

(***************************************************************************)
(* Polynomials.  np.poly1d holds the coefficients highest power first.     *)
(* The model holds the same polynomial as [shift, coef]: the polynomial    *)
(* sum coef[j] * (x - shift)^(deg + 1 - j), coef rational, highest power   *)
(* first; expanding around a point of the window keeps the integers of     *)
(* the exact least-squares solution small.                                 *)
(***************************************************************************)
Degree(p) == Len(p.coef) - 1

RECURSIVE HornerQ(_, _, _)
HornerQ(coef, t, acc) ==
    IF coef = <<>> THEN acc ELSE HornerQ(Tail(coef), t, QAdd(QMul(acc, t), coef[1]))

\* poly_func(x) at an integer x
PolyAtInt(p, x) == HornerQ(p.coef, QInt(x - p.shift), QInt(0))

RECURSIVE HornerR(_, _, _)
HornerR(coef, t, acc) ==
    IF coef = <<>> THEN acc ELSE HornerR(Tail(coef), t, RAdd(RMul(acc, t), RQ(coef[1])))

\* poly_func(x_c) at a real x_c
PolyAt(p, xc) == HornerR(p.coef, RSub(xc, RInt(p.shift)), RInt(0))

\* np.polyder(poly_func): the exact derivative; of a constant, the polynomial 0
PolyDer(p) ==
    IF Degree(p) = 0 THEN [shift |-> p.shift, coef |-> <<QInt(0)>>]
    ELSE [shift |-> p.shift,
          coef |-> [j \in 1..Degree(p) |-> QMul(QInt(Degree(p) + 1 - j), p.coef[j])]]

RECURSIVE StripLeadingZeros(_)
StripLeadingZeros(coef) ==
    IF coef = <<>> THEN <<>>
    ELSE IF coef[1][1] = 0 THEN StripLeadingZeros(Tail(coef))
    ELSE coef

\* The real ones among np.roots(dydx), for a derivative of degree at most 2
\* (lines 49-50).  np.roots drops leading zero coefficients; the polynomial 0
\* and the constants have no roots; a quadratic with a negative discriminant
\* has only complex roots, which np.isreal filters out; a double root is
\* listed twice.
RealRoots(p) ==
    LET c == StripLeadingZeros(p.coef)
        s == RInt(p.shift)
    IN  IF Len(c) <= 1 THEN <<>>
        ELSE IF Len(c) = 2 THEN <<RAdd(s, RQ(QNeg(QDiv(c[2], c[1]))))>>
        ELSE LET \* a t^2 + b t + c0 = 0, t = (-b +- sqrt(b^2 - 4 a c0)) / (2a)
                 a == c[1]
                 b == c[2]
                 disc == QSub(QMul(b, b), QMul(QInt(4), QMul(a, c[3])))
                 \* sqrt(n/d) = kn * sqrt(n1) / (kd * sqrt(d1)) = kn * sqrt(n1 * d1) / (kd * d1)
                 kn == SquarePart(disc[1], IntSqrt(disc[1]))
                 kd == SquarePart(disc[2], IntSqrt(disc[2]))
                 n1 == disc[1] \div (kn * kn)
                 d1 == disc[2] \div (kd * kd)
                 mid == QNeg(QDiv(b, QMul(QInt(2), a)))
                 half == QDiv(QNorm(kn, kd * d1), QMul(QInt(2), a))
             IN  IF disc[1] < 0 THEN <<>>
                 ELSE <<RAdd(s, RCanon(mid, QNeg(half), n1 * d1)),
                        RAdd(s, RCanon(mid, half, n1 * d1))>>

(***************************************************************************)
(* np.polyfit(x_window, y_window, order), for distinct x.                  *)
(***************************************************************************)
\* the sequence s, with its elements computed once
Tuple(s) == s \o <<>>

RECURSIVE GaussJordan(_, _, _)
\* M is the n x (n+1) augmented matrix of a system with non-zero pivots (a
\* positive definite matrix); the result has the solution in column n+1
GaussJordan(M, k, n) ==
    IF k > n THEN M
    ELSE LET rowk == Tuple([c \in 1..(n + 1) |-> QDiv(M[k][c], M[k][k])])
             M2 == Tuple([i \in 1..n |->
                      IF i = k THEN rowk
                      ELSE Tuple([c \in 1..(n + 1) |->
                                    QSub(M[i][c], QMul(M[i][k], rowk[c]))])])
         IN  GaussJordan(M2, k + 1, n)

\* The least-squares polynomial of degree deg through the points (xs, ys),
\* len(xs) >= deg + 1: the solution of the normal equations, in powers of
\* t = x - shift.
LeastSquares(xs, ys, deg, shift) ==
    LET m == Len(xs)
        n == deg + 1
        t == Tuple([i \in 1..m |-> xs[i] - shift])
        A(j, k) == SumInts([i \in 1..m |-> Pow(t[i], (n - j) + (n - k))])
        b(j) == SumInts([i \in 1..m |-> Pow(t[i], n - j) * ys[i]])
        M == Tuple([j \in 1..n |-> Tuple([k \in 1..(n + 1) |->
                IF k <= n THEN QInt(A(j, k)) ELSE QInt(b(j))])])
        S == GaussJordan(M, 1, n)
    IN  [shift |-> shift, coef |-> Tuple([j \in 1..n |-> S[j][n + 1]])]

\* the product of (t - r) over the roots r, as integer coefficients, highest
\* power first
RECURSIVE NodePoly(_)
NodePoly(roots) ==
    IF roots = <<>> THEN <<1>>
    ELSE LET q == NodePoly(Tail(roots))
             up == q \o <<0>>
             down == <<0>> \o q
         IN  [j \in 1..Len(up) |-> up[j] - roots[1] * down[j]]

\* the multiples of the node polynomial the model adds to an interpolant
Multiples == {-1, 0, 1}

\* The polynomials np.polyfit may return.
\*   len(xs) >= deg + 1: the least-squares polynomial, which is unique.
\*   len(xs) < deg + 1 (rank deficient): polyfit warns (RankWarning) and
\*   returns the minimum-norm solution of its column-scaled system, which is
\*   one of the degree-deg polynomials through all the points.  For one point
\*   (x0, y0), x0 > 0, that is y0 / ((deg + 1) * x0^e) for the coefficient of
\*   x^e.  For two or three points the model does not compute it: the result
\*   is some polynomial through the points, the interpolant of degree
\*   len(xs) - 1 plus a multiple of a degree-deg polynomial that is zero at
\*   every point.
PolyFits(xs, ys, deg) ==
    LET m == Len(xs)
        mid == xs[(m + 1) \div 2]
    IN  IF m >= deg + 1 THEN {LeastSquares(xs, ys, deg, mid)}
        ELSE IF m = 1
             THEN {[shift |-> 0,
                    coef |-> [j \in 1..(deg + 1) |->
                                QNorm(ys[1], (deg + 1) * Pow(xs[1], deg + 1 - j))]]}
        ELSE LET low == LeastSquares(xs, ys, m - 1, mid).coef
                 node == NodePoly([i \in 1..m |-> xs[i] - mid])
                 pad(c, z) == [j \in 1..(deg + 1 - Len(c)) |-> z] \o c
                 \* node * t^(deg - m): of degree deg, zero at every point
                 lift == node \o [j \in 1..(deg - m) |-> 0]
             IN  {[shift |-> mid,
                   coef |-> [j \in 1..(deg + 1) |->
                               QAdd(pad(low, QInt(0))[j], QInt(k * lift[j]))]] :
                     k \in Multiples}

(***************************************************************************)
(* The call frame of compute_max.  Indices are Python's: 0-based, and      *)
(* s.iloc[i] is s[i + 1] of the model's sequences.                         *)
(***************************************************************************)
\* the x sequences of length n: an ascending grid, a descending grid, and a
\* grid with neighbours swapped (x need not be sorted); all positive, distinct
XGrids(n) ==
    {[i \in 1..n |-> i],
     [i \in 1..n |-> n + 1 - i],
     [i \in 1..n |-> IF i % 2 = 1 THEN Min2(i + 1, n) ELSE i - 1]}

\* the degrees of the fit: negative, zero, and up to the cubic of the
\* docstring, whose derivative's roots have a closed form
Orders == -1..3

CmArgs ==
    UNION {{[x |-> xs, y |-> ys, offset |-> off, order |-> ord] :
                xs \in XGrids(Len(ys)), off \in -1..MaxOffset, ord \in Orders} :
            ys \in SeqsUpTo(0..MaxY, MaxLen)}

InitMax ==
    /\ args \in CmArgs
    /\ pc = "results"
    /\ locals = [results |-> None]
    /\ ret = Pending

\* the last index of the maximum of y
ArgMaxLast(y) ==
    (CHOOSE i \in 1..Len(y) :
        /\ \A j \in 1..Len(y) : y[j] <= y[i]
        /\ \A j \in (i + 1)..Len(y) : y[j] < y[i]) - 1

\* y.argmax(): the position (0-based) of the first occurrence of the maximum
ArgMax(y) ==
    (CHOOSE i \in 1..Len(y) :
        /\ \A j \in 1..Len(y) : y[j] <= y[i]
        /\ \A j \in 1..(i - 1) : y[j] < y[i]) - 1

\* y.max(), x_window.max()
SeqMax(s) == CHOOSE m \in Range(s) : \A v \in Range(s) : v <= m
\* x_window.min()
SeqMin(s) == CHOOSE m \in Range(s) : \A v \in Range(s) : m <= v

\* s.iloc[start:end]: Python's slice, a negative bound counted from the end
\* and both bounds clipped to the sequence
Slice(s, start, end) ==
    LET clip(b) == IF b < 0 THEN Max2(0, Len(s) + b) ELSE Min2(b, Len(s))
    IN  IF clip(start) >= clip(end) THEN <<>>
        ELSE SubSeq(s, clip(start) + 1, clip(end))

\* lines 20-30: the results dict.  y.argmax() raises ValueError on an empty y.
ResultsInit ==
    /\ pc = "results"
    /\ IF Len(args.y) = 0
       THEN /\ ret' = Raise("ValueError")
            /\ pc' = "done"
            /\ UNCHANGED locals
       ELSE /\ locals' = [results |->
                            [empirical_max_x |-> RInt(args.x[ArgMax(args.y) + 1]),
                             empirical_max_y |-> RInt(SeqMax(args.y)),
                             poly_max_x |-> None,
                             poly_max_y |-> None,
                             error_x |-> None,
                             error_y |-> None,
                             RMSE |-> None,
                             warnings |-> <<>>]]
            /\ pc' = "window"
            /\ UNCHANGED ret
    /\ UNCHANGED args

\* the end of the window without the + 1
WindowEndExclusive(len, idx_of_max, offset) == Min2(len, idx_of_max + offset)

\* line 34
WindowStart(idx_of_max, offset) == Max2(0, idx_of_max - offset)
\* line 35
WindowEnd(len, idx_of_max, offset) == Min2(len, idx_of_max + offset + 1)

\* lines 32-37: the window around the empirical max
Window ==
    /\ pc = "window"
    /\ LET idx_of_max == ArgMax(args.y)
           start == WindowStart(idx_of_max, args.offset)
           end == WindowEnd(Len(args.x), idx_of_max, args.offset)
       IN  locals' = [idx_of_max |-> idx_of_max,
                      start |-> start,
                      end |-> end,
                      x_window |-> Slice(args.x, start, end),
                      y_window |-> Slice(args.y, start, end)] @@ locals
    /\ pc' = "polyfit"
    /\ UNCHANGED <<args, ret>>

\* lines 39-42: coefficients, poly_func and y_fit.  np.polyfit raises
\* ValueError("expected deg >= 0") for a negative degree and
\* TypeError("expected non-empty vector for x") for an empty window; for a
\* window of fewer than order + 1 points it only warns.
PolyFit ==
    /\ pc = "polyfit"
    /\ IF args.order < 0
       THEN /\ ret' = Raise("ValueError")
            /\ pc' = "done"
            /\ UNCHANGED locals
       ELSE IF Len(locals.x_window) = 0
       THEN /\ ret' = Raise("TypeError")
            /\ pc' = "done"
            /\ UNCHANGED locals
       ELSE /\ \E p \in PolyFits(locals.x_window, locals.y_window, args.order) :
                  locals' = [poly_func |-> p,
                             y_fit |-> [i \in 1..Len(locals.x_window) |->
                                          PolyAtInt(p, locals.x_window[i])]] @@ locals
            /\ pc' = "rmse"
            /\ UNCHANGED ret
    /\ UNCHANGED args

\* np.sqrt(np.mean((y_window - y_fit) ** 2))
RmseOf(y_window, y_fit) ==
    LET sq == [i \in 1..Len(y_window) |->
                 QMul(QSub(QInt(y_window[i]), y_fit[i]), QSub(QInt(y_window[i]), y_fit[i]))]
    IN  FSqrt(FDiv(Fin(QSum(sq)), FInt(Len(y_window))))

\* lines 44-45: results['RMSE']
Rmse ==
    /\ pc = "rmse"
    /\ locals' = [locals EXCEPT !.results.RMSE = RmseOf(locals.y_window, locals.y_fit)]
    /\ pc' = "critical_points"
    /\ UNCHANGED <<args, ret>>

\* lines 47-50: the real roots of the first derivative
CriticalPoints ==
    /\ pc = "critical_points"
    /\ locals' = [dydx |-> PolyDer(locals.poly_func),
                  real_critical_points |-> RealRoots(PolyDer(locals.poly_func))] @@ locals
    /\ pc' = "valid_points"
    /\ UNCHANGED <<args, ret>>

\* line 56: x_window.min() <= x_c <= x_window.max()
InWindow(x_window, x_c) ==
    /\ RLeq(RInt(SeqMin(x_window)), x_c)
    /\ RLeq(x_c, RInt(SeqMax(x_window)))

\* lines 52-57: the pairs (x_c, poly_func(x_c)) of the critical points within
\* the bounds of the window
ValidPoints ==
    /\ pc = "valid_points"
    /\ LET kept == SelectSeq(locals.real_critical_points,
                             LAMBDA x_c : InWindow(locals.x_window, x_c))
       IN  locals' = [valid_points |->
                        [i \in 1..Len(kept) |-> <<kept[i], PolyAt(locals.poly_func, kept[i])>>]]
                     @@ locals
    /\ pc' = "poly_max"
    /\ UNCHANGED <<args, ret>>

\* the first point of the least value
MinByValue(points) ==
    points[CHOOSE i \in 1..Len(points) :
              /\ \A j \in 1..Len(points) : RLeq(points[i][2], points[j][2])
              /\ \A j \in 1..(i - 1) : RLt(points[i][2], points[j][2])]

\* max(valid_points, key=lambda p: p[1]): the first point of the greatest value
MaxByValue(points) ==
    points[CHOOSE i \in 1..Len(points) :
              /\ \A j \in 1..Len(points) : RLeq(points[j][2], points[i][2])
              /\ \A j \in 1..(i - 1) : RLt(points[j][2], points[i][2])]

NoMaximaWarning == "No valid maxima found in polynomial fit"

\* lines 59-64: the polynomial maximum, or the warning and the early return
PolyMax ==
    /\ pc = "poly_max"
    /\ IF locals.valid_points # <<>>
       THEN /\ locals' = [locals EXCEPT
                            !.results.poly_max_x = MaxByValue(locals.valid_points)[1],
                            !.results.poly_max_y = MaxByValue(locals.valid_points)[2]]
            /\ pc' = "errors"
            /\ UNCHANGED ret
       ELSE /\ locals' = [locals EXCEPT
                            !.results.warnings = Append(@, NoMaximaWarning)]
            /\ ret' = Return(locals'.results)
            /\ pc' = "done"
    /\ UNCHANGED args

\* lines 66-70: the errors, and the return
Errors ==
    /\ pc = "errors"
    /\ locals' = [locals EXCEPT
                    !.results.error_x =
                        RAbs(RSub(locals.results.empirical_max_x, locals.results.poly_max_x)),
                    !.results.error_y =
                        RAbs(RSub(locals.results.empirical_max_y, locals.results.poly_max_y))]
    /\ ret' = Return(locals'.results)
    /\ pc' = "done"
    /\ UNCHANGED args

NextMax ==
    ResultsInit \/ Window \/ PolyFit \/ Rmse \/ CriticalPoints \/ ValidPoints
        \/ PolyMax \/ Errors

SpecMax == InitMax /\ [][NextMax]_vars

\* what the claims about compute_max read
WindowBuilt == "x_window" \in DOMAIN locals
ValidCall == Len(args.y) >= 1 /\ args.offset >= 0

\* C1: for a non-empty y and an offset >= 0 the fit window is the index
\* range [max(0, i - offset), min(len(x), i + offset + 1)) around the index i
\* of the maximum: start >= 0, end <= len(x), start <= i < end, at most
\* 2 * offset + 1 points and fewer only when clipped at an end of the
\* sequence, and x_window, y_window are x and y over exactly that range.
C1_FitWindow ==
    (WindowBuilt /\ ValidCall) =>
        LET i == locals.idx_of_max
            n == Len(args.x)
            lo == IF i - args.offset < 0 THEN 0 ELSE i - args.offset
            hi == IF i + args.offset + 1 > n THEN n ELSE i + args.offset + 1
        IN  /\ locals.start = lo /\ locals.end = hi
            /\ 0 <= locals.start /\ locals.end <= n
            /\ locals.start <= i /\ i < locals.end
            /\ Len(locals.x_window) = locals.end - locals.start
            /\ Len(locals.x_window) <= 2 * args.offset + 1
            /\ Len(locals.x_window) < 2 * args.offset + 1 =>
                  (locals.start = 0 \/ locals.end = n)
            /\ Len(locals.y_window) = Len(locals.x_window)
            /\ \A k \in 1..Len(locals.x_window) :
                  /\ locals.x_window[k] = args.x[locals.start + k]
                  /\ locals.y_window[k] = args.y[locals.start + k]

\* a window clipped at the start of a sequence (the maximum at index 1,
\* offset 2, four points) and one clipped at both ends exist; here the first
C1_Witness ==
    /\ WindowBuilt
    /\ args.offset = 2
    /\ locals.idx_of_max = 1
    /\ locals.start = 0
    /\ locals.end = 4
    /\ Len(locals.x_window) = 4

\* C3: when the maximum of y occurs at several indices, idx_of_max is the
\* lowest of them; empirical_max_x and empirical_max_y are x and y at that
\* index, and the window is centred on it (offset indices on either side,
\* unless clipped).
C3_FirstMaximum ==
    (WindowBuilt /\ ValidCall) =>
        LET i == locals.idx_of_max
            n == Len(args.y)
        IN  /\ i \in 0..(n - 1)
            /\ \A j \in 1..n : args.y[j] <= args.y[i + 1]
            /\ \A j \in 1..i : args.y[j] < args.y[i + 1]
            /\ locals.results.empirical_max_x = RInt(args.x[i + 1])
            /\ locals.results.empirical_max_y = RInt(args.y[i + 1])
            /\ i - locals.start = (IF i < args.offset THEN i ELSE args.offset)
            /\ (locals.end - 1) - i =
                  (IF n - 1 - i < args.offset THEN n - 1 - i ELSE args.offset)

\* the maximum occurs three times, first at index 1, and the call returned
C3_Witness ==
    /\ pc = "done"
    /\ ret.k = "return"
    /\ args.y = <<0, 1, 1, 1>>
    /\ args.x = <<4, 3, 2, 1>>
    /\ locals.idx_of_max = 1
    /\ ret.value.empirical_max_x = RInt(3)

\* the indices of the real critical points that lie within the bounds of the
\* window
ValidIndices ==
    {i \in 1..Len(locals.real_critical_points) :
        /\ RSign(RSub(locals.real_critical_points[i], RInt(SeqMin(locals.x_window)))) >= 0
        /\ RSign(RSub(RInt(SeqMax(locals.x_window)), locals.real_critical_points[i])) >= 0}

Unset(r) ==
    /\ r.poly_max_x = None /\ r.poly_max_y = None
    /\ r.error_x = None /\ r.error_y = None

\* C2: a call that reaches the root finding does not raise.  With no real
\* root of the derivative within [min(x_window), max(x_window)] it returns
\* with warnings exactly the one "No valid maxima" string and poly_max_x,
\* poly_max_y, error_x, error_y unset.  With one, warnings is empty, the
\* four fields are set, poly_max_x is a root of the derivative within the
\* bounds, poly_max_y is the fitted value there and no valid critical point
\* has a greater fitted value.
C2_NoValidMaximaOrMaximum ==
    (pc = "done" /\ "real_critical_points" \in DOMAIN locals) =>
        /\ ret.k = "return"
        /\ ret.value = locals.results
        /\ \A i \in 1..Len(locals.real_critical_points) :
              RSign(PolyAt(PolyDer(locals.poly_func), locals.real_critical_points[i])) = 0
        /\ ValidIndices = {} =>
              /\ ret.value.warnings = <<"No valid maxima found in polynomial fit">>
              /\ Unset(ret.value)
        /\ ValidIndices # {} =>
              /\ ret.value.warnings = <<>>
              /\ ret.value.poly_max_x # None /\ ret.value.poly_max_y # None
              /\ ret.value.error_x # None /\ ret.value.error_y # None
              /\ \E i \in ValidIndices :
                    /\ ret.value.poly_max_x = locals.real_critical_points[i]
                    /\ ret.value.poly_max_y =
                          PolyAt(locals.poly_func, locals.real_critical_points[i])
              /\ RLeq(RInt(SeqMin(locals.x_window)), ret.value.poly_max_x)
              /\ RLeq(ret.value.poly_max_x, RInt(SeqMax(locals.x_window)))
              /\ \A j \in ValidIndices :
                    RLeq(PolyAt(locals.poly_func, locals.real_critical_points[j]),
                         ret.value.poly_max_y)

\* a cubic with two critical points within the window was fitted, and the
\* one of the greater fitted value returned
C2_Witness ==
    /\ pc = "done"
    /\ ret.k = "return"
    /\ args.order = 3
    /\ Len(locals.x_window) >= 4
    /\ Cardinality(ValidIndices) = 2
    /\ Len(locals.valid_points) = 2
    /\ RLt(locals.valid_points[2][2], locals.valid_points[1][2])
    /\ ret.value.poly_max_x = locals.valid_points[1][1]
    /\ ret.value.poly_max_x.d # 0
    /\ ret.value.error_x # None
    /\ ret.value.warnings = <<>>

\* C8: a call whose fit window has fewer than order + 1 points raises and
\* returns no result record.
C8_SmallWindowRaises ==
    (pc = "done" /\ WindowBuilt /\ Len(locals.x_window) < args.order + 1) =>
        ret.k = "raise"

\* C9: a call with a negative offset or an order <= 0 raises and returns no
\* result record.
C9_BadParametersRaise ==
    (pc = "done" /\ (args.offset < 0 \/ args.order <= 0)) => ret.k = "raise"

=============================================================================
